---- MODULE Spec2Model ----
(***************************************************************************)
(* Study dashboard: the Student aggregate (src/src/model.py), its goals,   *)
(* the dashboard service (src/src/service.py) and the repository           *)
(* (src/src/infrastructure/infrastructure.py).                             *)
(*                                                                         *)
(* Grades and targets are Python floats.  The model stores a grade as the  *)
(* decimal it was written as, in tenths (2.2 is 22), and evaluates every   *)
(* float operation of the source in IEEE-754 binary64 arithmetic           *)
(* (round to nearest, ties to even) on exact fixed-point naturals.         *)
(***************************************************************************)
EXTENDS Integers, Sequences, FiniteSets, TLC

(***************************************************************************)
(* Natural numbers of arbitrary size: little-endian sequences of limbs in  *)
(* base 2^15, without leading zero limbs (zero is << >>).                  *)
(***************************************************************************)
LimbBits == 15

Base == 2 ^ LimbBits

RECURSIVE BNorm(_)
BNorm(a) ==
    IF a = << >> THEN << >>
    ELSE IF a[Len(a)] = 0 THEN BNorm(SubSeq(a, 1, Len(a) - 1))
    ELSE a

RECURSIVE BFromNat(_)
BFromNat(n) ==
    IF n = 0 THEN << >> ELSE <<n % Base>> \o BFromNat(n \div Base)

Limb(a, i) == IF i <= Len(a) THEN a[i] ELSE 0

Max(x, y) == IF x >= y THEN x ELSE y

RECURSIVE BAddFrom(_, _, _, _)
BAddFrom(a, b, i, carry) ==
    IF i > Max(Len(a), Len(b))
    THEN (IF carry = 0 THEN << >> ELSE <<carry>>)
    ELSE LET s == Limb(a, i) + Limb(b, i) + carry
         IN  <<s % Base>> \o BAddFrom(a, b, i + 1, s \div Base)

BAdd(a, b) == BAddFrom(a, b, 1, 0)

\* a - b for a >= b
RECURSIVE BSubFrom(_, _, _, _)
BSubFrom(a, b, i, borrow) ==
    IF i > Len(a) THEN << >>
    ELSE LET d == Limb(a, i) - Limb(b, i) - borrow
         IN  IF d < 0 THEN <<d + Base>> \o BSubFrom(a, b, i + 1, 1)
                      ELSE <<d>> \o BSubFrom(a, b, i + 1, 0)

BSub(a, b) == BNorm(BSubFrom(a, b, 1, 0))

\* -1, 0, 1 as a < b, a = b, a > b
RECURSIVE BCmpFrom(_, _, _)
BCmpFrom(a, b, i) ==
    IF i = 0 THEN 0
    ELSE IF a[i] < b[i] THEN -1
    ELSE IF a[i] > b[i] THEN 1
    ELSE BCmpFrom(a, b, i - 1)

BCmp(a, b) ==
    IF Len(a) < Len(b) THEN -1
    ELSE IF Len(a) > Len(b) THEN 1
    ELSE BCmpFrom(a, b, Len(a))

BLeq(a, b) == BCmp(a, b) <= 0

\* a * s for 0 <= s < Base
RECURSIVE BMulSmallFrom(_, _, _, _)
BMulSmallFrom(a, s, i, carry) ==
    IF i > Len(a)
    THEN (IF carry = 0 THEN << >> ELSE <<carry>>)
    ELSE LET p == a[i] * s + carry
         IN  <<p % Base>> \o BMulSmallFrom(a, s, i + 1, p \div Base)

BMulSmall(a, s) == IF s = 0 THEN << >> ELSE BMulSmallFrom(a, s, 1, 0)

\* a * Base^k
RECURSIVE BShiftLimbs(_, _)
BShiftLimbs(a, k) ==
    IF a = << >> \/ k = 0 THEN a ELSE BShiftLimbs(<<0>> \o a, k - 1)

RECURSIVE BMulFrom(_, _, _)
BMulFrom(a, b, j) ==
    IF j > Len(b) THEN << >>
    ELSE BAdd(BShiftLimbs(BMulSmall(a, b[j]), j - 1), BMulFrom(a, b, j + 1))

BMul(a, b) == BMulFrom(a, b, 1)

\* quotient and remainder of a by d, 0 < d < Base
RECURSIVE BDivSmallFrom(_, _, _, _)
BDivSmallFrom(a, d, i, rem) ==
    IF i = 0 THEN [q |-> << >>, r |-> rem]
    ELSE LET cur  == rem * Base + a[i]
             rest == BDivSmallFrom(a, d, i - 1, cur % d)
         IN  [q |-> rest.q \o <<cur \div d>>, r |-> rest.r]

BDivSmall(a, d) ==
    LET res == BDivSmallFrom(a, d, Len(a), 0)
    IN  [q |-> BNorm(res.q), r |-> res.r]

RECURSIVE BitLenNat(_)
BitLenNat(n) == IF n = 0 THEN 0 ELSE 1 + BitLenNat(n \div 2)

BitLen(a) ==
    IF a = << >> THEN 0 ELSE LimbBits * (Len(a) - 1) + BitLenNat(a[Len(a)])

\* floor(a / 2^s)
BShiftRight(a, s) ==
    LET k    == s \div LimbBits
        bits == s % LimbBits
    IN  IF k >= Len(a) THEN << >>
        ELSE BDivSmall(SubSeq(a, k + 1, Len(a)), 2 ^ bits).q

\* a * 2^s
BShiftLeft(a, s) ==
    BShiftLimbs(BMulSmall(a, 2 ^ (s % LimbBits)), s \div LimbBits)

\* a mod 2^s # 0
BLowBitsSet(a, s) ==
    LET k    == s \div LimbBits
        bits == s % LimbBits
    IN  \/ \E i \in 1..k : Limb(a, i) # 0
        \/ Limb(a, k + 1) % (2 ^ bits) # 0

BIsOdd(a) == Limb(a, 1) % 2 = 1

(***************************************************************************)
(* binary64 values.  A float x >= 0 is the natural x * 2^FracBits; every   *)
(* value the source computes is zero or at least 2^-22, so its unit in the *)
(* last place is a multiple of 2^-FracBits and the representation is exact. *)
(***************************************************************************)
FracLimbs == 5

FracBits == FracLimbs * LimbBits

Mantissa == 53

\* round a natural (plus a sticky flag for discarded lower digits) to
\* Mantissa significant bits, ties to even
Round53(n, sticky) ==
    LET len == BitLen(n)
    IN  IF len <= Mantissa THEN n
        ELSE LET drop  == len - Mantissa
                 hi    == BShiftRight(n, drop)
                 rbit  == BIsOdd(BShiftRight(n, drop - 1))
                 lower == sticky \/ BLowBitsSet(n, drop - 1)
                 up    == rbit /\ (lower \/ BIsOdd(hi))
             IN  BShiftLeft(IF up THEN BAdd(hi, <<1>>) ELSE hi, drop)

\* float(n) for an int n
FFromInt(n) == BShiftLimbs(BFromNat(n), FracLimbs)

\* p / q for ints p >= 0, 0 < q < Base (true division, correctly rounded);
\* also the float a decimal literal p/q denotes
FDivInt(p, q) ==
    LET qr == BDivSmall(FFromInt(p), q)
    IN  Round53(qr.q, qr.r # 0)

\* x + y
FAdd(x, y) == Round53(BAdd(x, y), FALSE)

\* abs(x - y)
FAbsDiff(x, y) ==
    Round53(IF BLeq(y, x) THEN BSub(x, y) ELSE BSub(y, x), FALSE)

\* x * y
FMul(x, y) ==
    LET p == BMul(x, y)
    IN  Round53(BShiftRight(p, FracBits), BLowBitsSet(p, FracBits))

\* x / n for a float x and an int 0 < n < Base
FDivByInt(x, n) ==
    LET qr == BDivSmall(x, n)
    IN  Round53(qr.q, qr.r # 0)

\* the float written as the decimal d/10, for the decimals 0.0 to 6.0
\* (float("2.2"), the literal 1.9)
FlTable == [d \in 0..60 |-> FDivInt(d, 10)]

Fl(d) == FlTable[d]


\* int(x): truncation of a float to an int below 2^30
BToNat(a) == Limb(a, 1) + Base * Limb(a, 2)

FTrunc(x) == BToNat(BShiftRight(x, FracBits))

\* round(x): the nearest int, ties to even
FRound(x) ==
    LET ip   == FTrunc(x)
        half == BIsOdd(BShiftRight(x, FracBits - 1))
        rest == BLowBitsSet(x, FracBits - 1)
    IN  IF half /\ (rest \/ ip % 2 = 1) THEN ip + 1 ELSE ip

(***************************************************************************)
(* Enumerations and values of model.py                                     *)
(***************************************************************************)
BESTANDEN == "Bestanden"

NICHT_BESTANDEN == "Nicht bestanden"

ANGEMELDET == "Angemeldet"

ModulStatus == {BESTANDEN, NICHT_BESTANDEN, ANGEMELDET}

ERREICHT == "Erreicht"

NICHT_ERREICHT == "Nicht erreicht"

IN_ARBEIT == "In Arbeit"

ZielStatus == {ERREICHT, NICHT_ERREICHT, IN_ARBEIT}

\* the absent grade (note: Optional[float])
None == -1

\* the three raise statements of note_eintragen and the normal return
NoError == [cls |-> "None", msg |-> ""]

ErrNichtGefunden ==
    [cls |-> "ValueError", msg |-> "Studienleistung mit ID nicht gefunden."]

ErrBereitsEingetragen ==
    [cls |-> "ValueError",
     msg |-> "Fuer diese Leistung wurde bereits eine Note eingetragen."]

ErrNoteBereich ==
    [cls |-> "ValueError", msg |-> "Note muss zwischen 1,0 und 5,0 liegen."]

Notenziel(id, zielnote) ==
    [type |-> "Notenziel", id |-> id, zielnote |-> zielnote,
     zieldauer_in_jahren |-> 0]

Zeitziel(id, zieldauer_in_jahren) ==
    [type |-> "Zeitziel", id |-> id, zielnote |-> 0,
     zieldauer_in_jahren |-> zieldauer_in_jahren]

Modul(id, ects_punkte, semester) ==
    [id |-> id, ects_punkte |-> ects_punkte, semester |-> semester]

Studienleistung(id, modul, note, status) ==
    [id |-> id, modul |-> modul, note |-> note, status |-> status]

Datum(year, month, day) == [year |-> year, month |-> month, day |-> day]

(***************************************************************************)
(* datetime.date: the day number of a date (date.toordinal), which is what *)
(* (date.today() - studienbeginn).days subtracts                           *)
(***************************************************************************)
IsLeap(y) == y % 4 = 0 /\ (y % 100 # 0 \/ y % 400 = 0)

DaysInMonth(y, m) ==
    IF m = 2 THEN (IF IsLeap(y) THEN 29 ELSE 28)
    ELSE IF m \in {4, 6, 9, 11} THEN 30 ELSE 31

RECURSIVE DaysBeforeMonth(_, _)
DaysBeforeMonth(y, m) ==
    IF m = 1 THEN 0 ELSE DaysBeforeMonth(y, m - 1) + DaysInMonth(y, m - 1)

ToOrdinal(d) ==
    LET y == d.year - 1
    IN  y * 365 + (y \div 4) - (y \div 100) + (y \div 400)
        + DaysBeforeMonth(d.year, d.month) + d.day

DaysBetween(von, bis) == ToOrdinal(bis) - ToOrdinal(von)


(***************************************************************************)
(* Student (model.py).  A student is a record                              *)
(*   [id, studienbeginn, studiengang |-> [id, gesamtects],                 *)
(*    leistungen, ziele]                                                   *)
(***************************************************************************)
Student(id, studienbeginn, gesamtects, leistungen, ziele) ==
    [id |-> id, studienbeginn |-> studienbeginn,
     studiengang |-> [id |-> 1, gesamtects |-> gesamtects],
     leistungen |-> leistungen, ziele |-> ziele]

SumEcts(L, status) ==
    LET RECURSIVE Go(_)
        Go(i) == IF i > Len(L) THEN 0
                 ELSE (IF L[i].status \in status
                       THEN L[i].modul.ects_punkte ELSE 0) + Go(i + 1)
    IN  Go(1)

berechne_gesamt_ects_alle_benoteten(student) ==
    SumEcts(student.leistungen, {BESTANDEN, NICHT_BESTANDEN})

berechne_gesamt_ects(student) == SumEcts(student.leistungen, {BESTANDEN})

\* the grades of the PASSED achievements only
relevante_noten_nur_bestandene(student) ==
    LET L == student.leistungen
        RECURSIVE Go(_)
        Go(i) == IF i > Len(L) THEN << >>
                 ELSE (IF L[i].note # None /\ L[i].status = BESTANDEN
                       THEN <<L[i].note>> ELSE << >>) \o Go(i + 1)
    IN  Go(1)

\* [l.note for l in leistungen if l.note is not None and l.status in (...)]
relevante_noten(student) ==
    LET L == student.leistungen
        RECURSIVE Go(_)
        Go(i) == IF i > Len(L) THEN << >>
                 ELSE (IF L[i].note # None
                          /\ L[i].status \in {BESTANDEN, NICHT_BESTANDEN}
                       THEN <<L[i].note>> ELSE << >>) \o Go(i + 1)
    IN  Go(1)

\* sum(noten): left to right, starting from the int 0
RECURSIVE FSum(_, _)
FSum(noten, n) ==
    IF n = 0 THEN << >> ELSE FAdd(FSum(noten, n - 1), Fl(noten[n]))

\* the average as [present, value]; present = FALSE is the returned None
berechne_notendurchschnitt(student) ==
    LET noten == relevante_noten(student)
    IN  IF noten = << >> THEN [present |-> FALSE, value |-> << >>]
        ELSE [present |-> TRUE,
              value |-> FDivByInt(FSum(noten, Len(noten)), Len(noten))]

berechne_aktuelles_semester(student, heute) ==
    LET jahre_diff    == heute.year - student.studienbeginn.year
        monate_diff   == heute.month - student.studienbeginn.month
        gesamt_monate == (jahre_diff * 12) + monate_diff
    IN  (gesamt_monate \div 6) + 1

\* next((l for l in self.leistungen if l.id == leistung_id), None):
\* the index of the first match, 0 for None
FindLeistung(L, leistung_id) ==
    IF \E i \in 1..Len(L) : L[i].id = leistung_id
    THEN CHOOSE i \in 1..Len(L) :
            /\ L[i].id = leistung_id
            /\ \A j \in 1..(i - 1) : L[j].id # leistung_id
    ELSE 0

NoteImBereich_obere_grenze_offen(note) ==
    BLeq(FFromInt(1), Fl(note)) /\ BCmp(Fl(note), FFromInt(5)) < 0

\* 1.0 <= note <= 5.0
NoteImBereich(note) ==
    BLeq(FFromInt(1), Fl(note)) /\ BLeq(Fl(note), FFromInt(5))

NoteBestanden_bis_4_5(note) ==
    BLeq(FFromInt(1), Fl(note)) /\ BLeq(Fl(note), Fl(45))

\* 1.0 <= note <= 4.0
NoteBestanden(note) ==
    BLeq(FFromInt(1), Fl(note)) /\ BLeq(Fl(note), FFromInt(4))

SetzeNote(L, idx, note) ==
    [L EXCEPT ![idx] =
        [@ EXCEPT !.note = note,
                  !.status = IF NoteBestanden(note) THEN BESTANDEN
                             ELSE NICHT_BESTANDEN]]

\* mutants of note_eintragen: no status check; range check before the
\* status check; grade assigned before it is validated
note_eintragen_ohne_statuspruefung(L, leistung_id, note) ==
    LET idx == FindLeistung(L, leistung_id)
    IN  IF idx = 0 THEN [leistungen |-> L, err |-> ErrNichtGefunden]
        ELSE IF ~NoteImBereich(note)
        THEN [leistungen |-> L, err |-> ErrNoteBereich]
        ELSE [leistungen |-> SetzeNote(L, idx, note), err |-> NoError]

note_eintragen_bereich_zuerst(L, leistung_id, note) ==
    LET idx == FindLeistung(L, leistung_id)
    IN  IF idx = 0 THEN [leistungen |-> L, err |-> ErrNichtGefunden]
        ELSE IF ~NoteImBereich(note)
        THEN [leistungen |-> L, err |-> ErrNoteBereich]
        ELSE IF L[idx].status # ANGEMELDET
        THEN [leistungen |-> L, err |-> ErrBereitsEingetragen]
        ELSE [leistungen |-> SetzeNote(L, idx, note), err |-> NoError]

note_eintragen_note_vor_pruefung(L, leistung_id, note) ==
    LET idx == FindLeistung(L, leistung_id)
    IN  IF idx = 0 THEN [leistungen |-> L, err |-> ErrNichtGefunden]
        ELSE IF L[idx].status # ANGEMELDET
        THEN [leistungen |-> L, err |-> ErrBereitsEingetragen]
        ELSE IF ~NoteImBereich(note)
        THEN [leistungen |-> [L EXCEPT ![idx].note = note],
              err |-> ErrNoteBereich]
        ELSE [leistungen |-> SetzeNote(L, idx, note), err |-> NoError]

\* a note_eintragen that grades every achievement with the id
note_eintragen_alle_mit_id(L, leistung_id, note) ==
    LET idx == FindLeistung(L, leistung_id)
    IN  IF idx = 0 THEN [leistungen |-> L, err |-> ErrNichtGefunden]
        ELSE IF L[idx].status # ANGEMELDET
        THEN [leistungen |-> L, err |-> ErrBereitsEingetragen]
        ELSE IF ~NoteImBereich(note)
        THEN [leistungen |-> L, err |-> ErrNoteBereich]
        ELSE [leistungen |->
                 [j \in 1..Len(L) |->
                     IF L[j].id = leistung_id
                     THEN SetzeNote(L, j, note)[j] ELSE L[j]],
              err |-> NoError]

\* Student.note_eintragen: the leistungen after the call and the exception
\* raised (NoError for a normal return)
note_eintragen(L, leistung_id, note) ==
    LET idx == FindLeistung(L, leistung_id)
    IN  IF idx = 0 THEN [leistungen |-> L, err |-> ErrNichtGefunden]
        ELSE IF L[idx].status # ANGEMELDET
        THEN [leistungen |-> L, err |-> ErrBereitsEingetragen]
        ELSE IF ~NoteImBereich(note)
        THEN [leistungen |-> L, err |-> ErrNoteBereich]
        ELSE [leistungen |-> SetzeNote(L, idx, note), err |-> NoError]

(***************************************************************************)
(* Goals                                                                   *)
(***************************************************************************)
\* toleranz = 0.3
toleranz == Fl(3)

Notenziel_werte_status_aus(ziel, student) ==
    LET durchschnitt == berechne_notendurchschnitt(student)
    IN  IF ~durchschnitt.present THEN IN_ARBEIT
        ELSE IF BLeq(durchschnitt.value, Fl(ziel.zielnote)) THEN ERREICHT
        ELSE IF BLeq(durchschnitt.value, FAdd(Fl(ziel.zielnote), toleranz))
        THEN IN_ARBEIT
        ELSE NICHT_ERREICHT

pufferzone_ects == 15

\* tage_im_studium / 365.25 = 4 * tage_im_studium / 1461
jahre_im_studium(student, heute) ==
    FDivInt(4 * DaysBetween(student.studienbeginn, heute), 1461)

soll_ects_stand_heute(ziel, student, heute) ==
    FMul(FDivInt(student.studiengang.gesamtects, ziel.zieldauer_in_jahren),
         jahre_im_studium(student, heute))

Zeitziel_werte_status_aus(ziel, student, heute) ==
    IF ziel.zieldauer_in_jahren <= 0 THEN IN_ARBEIT
    ELSE LET soll == soll_ects_stand_heute(ziel, student, heute)
             ist  == FFromInt(berechne_gesamt_ects(student))
         IN  \* differenz = ist - soll; differenz >= 0
             IF BLeq(soll, ist) THEN ERREICHT
             ELSE IF BLeq(FAbsDiff(ist, soll), FFromInt(pufferzone_ects))
             THEN IN_ARBEIT
             ELSE NICHT_ERREICHT

werte_status_aus(ziel, student, heute) ==
    IF ziel.type = "Notenziel" THEN Notenziel_werte_status_aus(ziel, student)
    ELSE Zeitziel_werte_status_aus(ziel, student, heute)


\* f"{schnitt:.2f}": the average in hundredths, the exact binary value
\* rounded to two decimals
Format2f(x) == FRound(BMulSmall(x, 100))

\* Student._format_zeitziel_status: the two numbers of
\* f"Ist: {ist_ects} ECTS | Soll: {int(soll_ects)} ECTS"
format_zeitziel_status(ziel, student, heute) ==
    LET gesamtects      == student.studiengang.gesamtects
        tage_im_studium == DaysBetween(student.studienbeginn, heute)
        \* tage_gesamt = zieldauer * 365.25; gesamtects / tage_gesamt
        soll_ects ==
            IF ziel.zieldauer_in_jahren > 0
            THEN FMul(FDivInt(4 * gesamtects,
                              1461 * ziel.zieldauer_in_jahren),
                      FFromInt(tage_im_studium))
            ELSE << >>
    IN  [text |-> "Ist/Soll ECTS", ist |-> berechne_gesamt_ects(student),
         soll |-> FTrunc(soll_ects)]

display_text(ziel, student, heute) ==
    IF ziel.type = "Notenziel"
    THEN LET schnitt == berechne_notendurchschnitt(student)
         IN  \* if schnitt: (neither None nor 0.0)
             IF schnitt.present /\ schnitt.value # << >>
             THEN [text |-> "Ist/Soll Note", ist |-> Format2f(schnitt.value),
                   soll |-> ziel.zielnote]
             ELSE [text |-> "Noch keine Noten", ist |-> 0, soll |-> 0]
    ELSE format_zeitziel_status(ziel, student, heute)

beschreibung(ziel) ==
    IF ziel.type = "Notenziel"
    THEN [text |-> "Notenziel", wert |-> ziel.zielnote]
    ELSE [text |-> "Abschluss in Jahren", wert |-> ziel.zieldauer_in_jahren]

\* Student.werte_ziele_aus: one ZielBewertung per goal, in list order
werte_ziele_aus(student, heute) ==
    [i \in 1..Len(student.ziele) |->
        [beschreibung   |-> beschreibung(student.ziele[i]),
         logical_status |-> werte_status_aus(student.ziele[i], student, heute),
         display_text   |-> display_text(student.ziele[i], student, heute)]]

(***************************************************************************)
(* DashboardService.get_student_dashboard (service.py), after the load     *)
(***************************************************************************)
SemesterTabs_bis_7 == 1..7

\* range(1, 7)
SemesterTabs == 1..6

fortschritt_prozent_abgeschnitten(erreichte_ects, gesamt_ects) ==
    IF gesamt_ects > 0
    THEN FTrunc(FMul(FDivInt(erreichte_ects, gesamt_ects), FFromInt(100)))
    ELSE 0

\* round((erreichte_ects / gesamt_ects) * 100) if gesamt_ects > 0 else 0
fortschritt_prozent(erreichte_ects, gesamt_ects) ==
    IF gesamt_ects > 0
    THEN FRound(FMul(FDivInt(erreichte_ects, gesamt_ects), FFromInt(100)))
    ELSE 0

LeistungView(l) ==
    [id |-> l.id, modul |-> l.modul.id, note |-> l.note, status |-> l.status]

semester_daten_map(student) ==
    LET L == student.leistungen
        RECURSIVE Go(_, _)
        Go(sem, i) ==
            IF i > Len(L) THEN << >>
            ELSE (IF L[i].modul.semester = sem
                  THEN <<LeistungView(L[i])>> ELSE << >>) \o Go(sem, i + 1)
    IN  [sem \in SemesterTabs |-> Go(sem, 1)]

student_view_data(student, heute) ==
    [id                 |-> student.id,
     studienbeginn      |-> <<student.studienbeginn.day,
                              student.studienbeginn.month,
                              student.studienbeginn.year>>,
     aktuelles_semester |-> berechne_aktuelles_semester(student, heute),
     ziele              |-> werte_ziele_aus(student, heute),
     semester_data      |-> semester_daten_map(student),
     fortschritt        |->
        [aktuell_ects |-> berechne_gesamt_ects(student),
         gesamt_ects  |-> student.studiengang.gesamtects,
         prozent      |-> fortschritt_prozent(berechne_gesamt_ects(student),
                                student.studiengang.gesamtects)]]


(***************************************************************************)
(* SqlAlchemyStudentRepository (infrastructure.py): the persisted students *)
(* by id.  find_by_id maps the stored rows to a fresh Student, or None.    *)
(***************************************************************************)
\* the None that find_by_id returns
NoStudent == Student(0, Datum(1, 1, 1), 0, << >>, << >>)

find_by_id(store, student_id) ==
    IF student_id \in DOMAIN store THEN store[student_id] ELSE NoStudent

\* a save that keeps a stored achievement once it is PASSED or FAILED
save_finale_behalten(store, s) ==
    [id \in DOMAIN store \cup {s.id} |->
        IF id # s.id THEN store[id]
        ELSE IF id \notin DOMAIN store THEN s
        ELSE [s EXCEPT !.leistungen =
                 [i \in DOMAIN s.leistungen |->
                     IF /\ i \in DOMAIN store[id].leistungen
                        /\ store[id].leistungen[i].status # ANGEMELDET
                     THEN store[id].leistungen[i]
                     ELSE s.leistungen[i]]]]

\* save: the row of student.id gets the student's data and lists
save(store, s) ==
    [id \in DOMAIN store \cup {s.id} |->
        IF id = s.id THEN s ELSE store[id]]

\* student.note_eintragen(...) on None
ErrAttribute ==
    [cls |-> "AttributeError",
     msg |-> "'NoneType' object has no attribute"]

(***************************************************************************)
(* Bounds and inputs                                                       *)
(***************************************************************************)
MaxLeistungen == 2

MaxZielLeistungen == 2

MaxRequests == 2

\* grades entered, in tenths: below, on and above 1.0, 4.0 and 5.0
NotenEingaben == {9, 10, 22, 40, 41, 50, 51}

\* modules of the seeded programme (5 credits each, semesters 1 to 3), one
\* of 10 credits and one recommended for a semester without a tab
ModulKatalog ==
    <<Modul(101, 5, 1), Modul(201, 5, 2), Modul(301, 10, 3),
      Modul(401, 5, 7)>>

\* seed_database_sqlalchemy: zielnote 1.9, three years
SeedZiele == <<Notenziel(1, 19), Zeitziel(2, 3)>>

SeedGesamtEcts == 180

\* date(today.year - 1, 10, 1) for a seeding in 2026
SeedStudienbeginn == Datum(2025, 10, 1)

SeedHeute == Datum(2026, 11, 3)

HeuteWerte == {Datum(2026, 3, 15), SeedHeute}

AngemeldeteLeistungen(n) ==
    [i \in 1..n |-> Studienleistung(i, ModulKatalog[i], None, ANGEMELDET)]

\* two REGISTERED achievements that carry the same id
DoppelteIdLeistungen ==
    <<Studienleistung(1, ModulKatalog[1], None, ANGEMELDET),
      Studienleistung(1, ModulKatalog[2], None, ANGEMELDET)>>

\* the seeded student with its first n achievements, a student whose only
\* goal is a time goal of zero years, and a student built with
\* DoppelteIdLeistungen
InitStudents ==
    {Student(1, SeedStudienbeginn, SeedGesamtEcts,
             AngemeldeteLeistungen(n), SeedZiele) : n \in 1..MaxLeistungen}
    \cup {Student(1, SeedStudienbeginn, SeedGesamtEcts,
                  AngemeldeteLeistungen(1), <<Zeitziel(2, 0)>>),
          Student(1, SeedStudienbeginn, SeedGesamtEcts,
                  DoppelteIdLeistungen, SeedZiele)}

VARIABLES
    student,   \* the Student aggregate in memory
    heute,     \* date.today()
    ret,       \* the last call on the aggregate or service and its outcome
    db,        \* the repository's persisted students
    req        \* the note_speichern requests in progress

vars == <<student, heute, ret, db, req>>

Ret(op, leistung_id, note, err, value) ==
    [op |-> op, leistung_id |-> leistung_id, note |-> note, err |-> err,
     value |-> value]

NoRet == Ret("", 0, 0, NoError, << >>)

IdleRequest ==
    [pc |-> "start", student_id |-> 0, leistung_id |-> 0, note |-> 0,
     student |-> NoStudent, err |-> NoError]

Requests == 1..MaxRequests

(***************************************************************************)
(* Spec: calls on one Student in memory                                    *)
(***************************************************************************)
Init ==
    /\ student \in InitStudents
    /\ heute \in HeuteWerte
    /\ Len(student.leistungen) > 1 => heute = SeedHeute
    /\ ret = NoRet
    /\ db = << >>
    /\ req = [r \in Requests |-> IdleRequest]

NoteEintragen(leistung_id, note) ==
    LET r == note_eintragen(student.leistungen, leistung_id, note)
    IN  /\ student' = [student EXCEPT !.leistungen = r.leistungen]
        /\ ret' = Ret("note_eintragen", leistung_id, note, r.err, << >>)
        /\ UNCHANGED <<heute, db, req>>

WerteZieleAus ==
    /\ ret' = Ret("werte_ziele_aus", 0, 0, NoError,
                  werte_ziele_aus(student, heute))
    /\ UNCHANGED <<student, heute, db, req>>

DashboardAufbereiten ==
    /\ ret' = Ret("get_student_dashboard", 0, 0, NoError,
                  student_view_data(student, heute))
    /\ UNCHANGED <<student, heute, db, req>>

Next ==
    \/ \E leistung_id \in 1..(MaxLeistungen + 1), note \in NotenEingaben :
          NoteEintragen(leistung_id, note)
    \/ WerteZieleAus
    \/ DashboardAufbereiten

Spec == Init /\ [][Next]_vars


(***************************************************************************)
(* Properties of note_eintragen, checked under Spec                        *)
(***************************************************************************)
Leistungen == student.leistungen

\* the step is a note_eintragen call (ret' is its record)
IstNoteEintragen == ret'.op = "note_eintragen"

\* the achievement the call of ret' is about, 0 if the id is unknown
ZielIndex == FindLeistung(Leistungen, ret'.leistung_id)

NoteGueltig(note) == 10 <= note /\ note <= 50

\* C1: in every reachable state a PASSED achievement has a grade in
\* [1.0, 4.0] and a FAILED achievement has a grade in (4.0, 5.0].
C1_StatusFixesGradeBand ==
    \A i \in 1..Len(Leistungen) :
        /\ Leistungen[i].status = BESTANDEN =>
              /\ Leistungen[i].note # None
              /\ 10 <= Leistungen[i].note /\ Leistungen[i].note <= 40
        /\ Leistungen[i].status = NICHT_BESTANDEN =>
              /\ Leistungen[i].note # None
              /\ 40 < Leistungen[i].note /\ Leistungen[i].note <= 50

C1_Witness ==
    /\ \E i \in 1..Len(Leistungen) : Leistungen[i].status = BESTANDEN
    /\ \E i \in 1..Len(Leistungen) : Leistungen[i].status = NICHT_BESTANDEN
    /\ ret.op = "note_eintragen" /\ ret.err # NoError

\* C2: a status changes only from REGISTERED to PASSED or FAILED, and an
\* achievement that is PASSED or FAILED is changed by no later call.
C2_StatusFinal ==
    [][\A i \in 1..Len(Leistungen) :
          /\ Leistungen[i].status # student'.leistungen[i].status =>
                /\ Leistungen[i].status = ANGEMELDET
                /\ student'.leistungen[i].status
                       \in {BESTANDEN, NICHT_BESTANDEN}
          /\ Leistungen[i].status # ANGEMELDET =>
                student'.leistungen[i] = Leistungen[i]]_vars

C2_Witness ==
    /\ ret.op = "note_eintragen" /\ ret.err = ErrBereitsEingetragen
    /\ NoteGueltig(ret.note)
    /\ \E i \in 1..Len(Leistungen) :
          /\ Leistungen[i].id = ret.leistung_id
          /\ Leistungen[i].status = NICHT_BESTANDEN
          /\ ret.note <= 40

\* two calls in succession on the same id of the student: ret is the
\* first call, ret' the second
ZweiAufrufeGleicheId ==
    /\ ret.op = "note_eintragen" /\ IstNoteEintragen
    /\ ret'.leistung_id = ret.leistung_id
    /\ ZielIndex # 0

\* C3 as stated: the second of two successive calls on the same id always
\* fails with the already-graded error, whatever the two grades are.
C3_SecondCallAlwaysInvalidState ==
    [][ZweiAufrufeGleicheId => ret'.err = ErrBereitsEingetragen]_vars

\* C3 amended: the second call fails with the already-graded error when the
\* first call succeeded or failed with that error; after a first call
\* rejected for its grade the achievement is still REGISTERED and the second
\* call succeeds exactly when its own grade is in [1.0, 5.0].
C3_SecondCallAfterFinal ==
    [][ZweiAufrufeGleicheId =>
          /\ ret.err \in {NoError, ErrBereitsEingetragen} =>
                ret'.err = ErrBereitsEingetragen
          /\ ret.err = ErrNoteBereich =>
                ret'.err = (IF NoteGueltig(ret'.note) THEN NoError
                            ELSE ErrNoteBereich)]_vars

C3_Witness ==
    /\ ret.op = "note_eintragen" /\ ret.err = ErrBereitsEingetragen
    /\ \E i \in 1..Len(Leistungen) :
          /\ Leistungen[i].id = ret.leistung_id
          /\ Leistungen[i].note # None
          /\ Leistungen[i].note # ret.note

\* C4: on a REGISTERED achievement of the student the call succeeds exactly
\* for 1.0 <= g <= 5.0 and fails with the range error otherwise; on success
\* the grade is g and the status PASSED for g <= 4.0, FAILED otherwise.
C4_GradeRange ==
    [][(IstNoteEintragen /\ ZielIndex # 0
        /\ Leistungen[ZielIndex].status = ANGEMELDET) =>
          IF NoteGueltig(ret'.note)
          THEN /\ ret'.err = NoError
               /\ student'.leistungen[ZielIndex].note = ret'.note
               /\ student'.leistungen[ZielIndex].status =
                     (IF ret'.note <= 40 THEN BESTANDEN ELSE NICHT_BESTANDEN)
          ELSE ret'.err = ErrNoteBereich]_vars

C4_Witness ==
    /\ ret.op = "note_eintragen" /\ ret.err = NoError /\ ret.note = 50
    /\ \E i \in 1..Len(Leistungen) :
          /\ Leistungen[i].id = ret.leistung_id
          /\ Leistungen[i].note = 50
          /\ Leistungen[i].status = NICHT_BESTANDEN

\* C5: the three failures are three different errors, decided in the order
\* unknown id, achievement not REGISTERED, grade out of range.
C5_ErrorOrder ==
    [][IstNoteEintragen =>
          /\ Cardinality({ErrNichtGefunden, ErrBereitsEingetragen,
                          ErrNoteBereich, NoError}) = 4
          /\ ZielIndex = 0 => ret'.err = ErrNichtGefunden
          /\ (ZielIndex # 0 /\ Leistungen[ZielIndex].status # ANGEMELDET) =>
                ret'.err = ErrBereitsEingetragen
          /\ ret'.err = ErrNoteBereich =>
                /\ ZielIndex # 0
                /\ Leistungen[ZielIndex].status = ANGEMELDET
                /\ ~NoteGueltig(ret'.note)]_vars

C5_Witness ==
    /\ ret.op = "note_eintragen" /\ ret.err = ErrBereitsEingetragen
    /\ ~NoteGueltig(ret.note)

\* C6: a rejected call leaves the whole student unchanged.
C6_RejectedCallChangesNothing ==
    [][(IstNoteEintragen /\ ret'.err # NoError) => student' = student]_vars

C6_Witness ==
    /\ ret.op = "note_eintragen" /\ ret.err = ErrNoteBereich
    /\ \E i \in 1..Len(Leistungen) :
          /\ Leistungen[i].id = ret.leistung_id
          /\ Leistungen[i].note = None /\ Leistungen[i].status = ANGEMELDET

\* the credits of the PASSED achievements, summed over the set of their
\* positions
RECURSIVE SumOver(_, _)
SumOver(L, idx) ==
    IF idx = {} THEN 0
    ELSE LET i == CHOOSE j \in idx : TRUE
         IN  L[i].modul.ects_punkte + SumOver(L, idx \ {i})

PassedCredits(L) ==
    SumOver(L, {i \in 1..Len(L) : L[i].status = BESTANDEN})

\* C7: the earned credits are the credits of the PASSED achievements; a
\* successful call with grade <= 4.0 raises them by the credits of the
\* graded achievement's module and every other step leaves them unchanged.
C7_EarnedCredits ==
    [][/\ berechne_gesamt_ects(student') = PassedCredits(student'.leistungen)
       /\ berechne_gesamt_ects(student') >= berechne_gesamt_ects(student)
       /\ berechne_gesamt_ects(student') =
             berechne_gesamt_ects(student)
             + (IF IstNoteEintragen /\ ret'.err = NoError /\ ret'.note <= 40
                THEN Leistungen[ZielIndex].modul.ects_punkte ELSE 0)]_vars

C7_Witness ==
    /\ ret.op = "get_student_dashboard"
    /\ ret.value.fortschritt.aktuell_ects > 0
    /\ \E i \in 1..Len(Leistungen) : Leistungen[i].status = NICHT_BESTANDEN

(***************************************************************************)
(* SpecZiele: the goal evaluations as functions of their inputs.  The      *)
(* students are drawn from bounded sets: for a Notenziel every list of at   *)
(* most MaxZielLeistungen achievements that are REGISTERED or graded, for a *)
(* Zeitziel every such list with module credits from EctsWerte, a          *)
(* programme size, a target duration and a date.                           *)
(***************************************************************************)
ZielnotenWerte == {11, 19, 20}

ZielNoten == {10, 18, 22, 23, 25, 50}

EctsWerte == {13, 15, 30}

GesamtEctsWerte == {21, 28, 180}

ZieldauerWerte == {-1, 0, 3, 4, 5}

ZielStudienbeginn == Datum(2020, 1, 1)

\* 365, 1461 and 2435 days after ZielStudienbeginn
ZielHeuteWerte == {Datum(2020, 12, 31), Datum(2024, 1, 1), Datum(2026, 9, 1)}

\* all lists of at most n options
ListsUpTo(options, n) == UNION {[1..k -> options] : k \in 0..n}

BenoteteLeistung(i, ects, note) ==
    Studienleistung(i, Modul(100 + i, ects, 1), note,
                    IF note = None THEN ANGEMELDET
                    ELSE IF note <= 40 THEN BESTANDEN ELSE NICHT_BESTANDEN)

NotenzielStudents ==
    {Student(1, ZielStudienbeginn, SeedGesamtEcts,
             [i \in DOMAIN f |-> BenoteteLeistung(i, 5, f[i])],
             <<Notenziel(1, t)>>) :
        f \in ListsUpTo({None} \cup ZielNoten, MaxZielLeistungen),
        t \in ZielnotenWerte}

ZeitzielStudents ==
    {Student(1, ZielStudienbeginn, g,
             [i \in DOMAIN f |-> BenoteteLeistung(i, f[i][1], f[i][2])],
             <<Zeitziel(2, y)>>) :
        f \in ListsUpTo(EctsWerte \X {None, 20, 50}, MaxZielLeistungen),
        g \in GesamtEctsWerte, y \in ZieldauerWerte}

InitZiele ==
    /\ \/ student \in NotenzielStudents /\ heute = Datum(2020, 12, 31)
       \/ student \in ZeitzielStudents /\ heute \in ZielHeuteWerte
    /\ ret = NoRet
    /\ db = << >>
    /\ req = [r \in Requests |-> IdleRequest]

NotenzielAuswerten ==
    /\ student.ziele[1].type = "Notenziel"
    /\ ret' = Ret("Notenziel.werte_status_aus", 0, 0, NoError,
                  Notenziel_werte_status_aus(student.ziele[1], student))
    /\ UNCHANGED <<student, heute, db, req>>

ZeitzielAuswerten ==
    /\ student.ziele[1].type = "Zeitziel"
    /\ ret' = Ret("Zeitziel.werte_status_aus", 0, 0, NoError,
                  Zeitziel_werte_status_aus(student.ziele[1], student, heute))
    /\ UNCHANGED <<student, heute, db, req>>

NotendurchschnittBerechnen ==
    /\ ret' = Ret("berechne_notendurchschnitt", 0, 0, NoError,
                  berechne_notendurchschnitt(student))
    /\ UNCHANGED <<student, heute, db, req>>

NextZiele ==
    \/ NotenzielAuswerten
    \/ ZeitzielAuswerten
    \/ NotendurchschnittBerechnen

SpecZiele == InitZiele /\ [][NextZiele]_vars

\* the graded achievements: their number and the sum of their grades in
\* tenths, so that the average is NotenSumme / NotenAnzahl tenths
Benotete ==
    {i \in 1..Len(Leistungen) :
        Leistungen[i].note # None /\ Leistungen[i].status # ANGEMELDET}

RECURSIVE NotenSummeUeber(_)
NotenSummeUeber(idx) ==
    IF idx = {} THEN 0
    ELSE LET i == CHOOSE j \in idx : TRUE
         IN  Leistungen[i].note + NotenSummeUeber(idx \ {i})

NotenSumme == NotenSummeUeber(Benotete)

NotenAnzahl == Cardinality(Benotete)

\* C9: the status of a grade goal is IN_PROGRESS without an average,
\* ACHIEVED for average <= target, IN_PROGRESS for
\* target < average <= target + 0.3 and NOT_ACHIEVED above.
C9_GradeGoalBands ==
    ret.op = "Notenziel.werte_status_aus" =>
        LET t == student.ziele[1].zielnote
        IN  ret.value =
               IF NotenAnzahl = 0 THEN IN_ARBEIT
               ELSE IF NotenSumme <= t * NotenAnzahl THEN ERREICHT
               ELSE IF NotenSumme <= (t + 3) * NotenAnzahl THEN IN_ARBEIT
               ELSE NICHT_ERREICHT

\* C10: the status of a time goal is IN_PROGRESS for a target of at most 0
\* years; otherwise, with expected = (gesamtects / years) * (days / 365.25),
\* ACHIEVED for earned >= expected, IN_PROGRESS for a deficit of at most
\* 15 credits and NOT_ACHIEVED for a larger one.  The comparison is written
\* for the exact quotients, multiplied by years * 1461.
C10_TimeGoalBands ==
    ret.op = "Zeitziel.werte_status_aus" =>
        LET jahre  == student.ziele[1].zieldauer_in_jahren
            tage   == DaysBetween(student.studienbeginn, heute)
            soll   == 4 * student.studiengang.gesamtects * tage
            ist    == PassedCredits(Leistungen) * jahre * 1461
        IN  ret.value =
               IF jahre <= 0 THEN IN_ARBEIT
               ELSE IF ist >= soll THEN ERREICHT
               ELSE IF soll - ist <= 15 * jahre * 1461 THEN IN_ARBEIT
               ELSE NICHT_ERREICHT


(***************************************************************************)
(* SpecService: DashboardService over the repository.  A note_speichern    *)
(* request runs find_by_id, note_eintragen on its own copy and save as     *)
(* three steps; requests of different threads interleave between them      *)
(* (each has its own session, the repository takes no lock and keeps no    *)
(* version).                                                               *)
(***************************************************************************)
\* the persisted student: the first achievement graded 1.3 as in the seed,
\* the others REGISTERED
SeedLeistungen ==
    [i \in 1..MaxLeistungen |->
        IF i = 1 THEN Studienleistung(1, ModulKatalog[1], 13, BESTANDEN)
        ELSE Studienleistung(i, ModulKatalog[i], None, ANGEMELDET)]

SeedStudent ==
    Student(1, SeedStudienbeginn, SeedGesamtEcts, SeedLeistungen, SeedZiele)

\* (student_id, leistung_id, note) of the requests: two grades for the
\* REGISTERED achievement 2, a grade for the graded achievement 1, a grade
\* out of range, an unknown achievement and an unknown student
RequestEingaben ==
    {<<1, 2, 22>>, <<1, 2, 45>>, <<1, 1, 22>>, <<1, 2, 51>>,
     <<1, MaxLeistungen + 1, 22>>, <<2, 2, 22>>}

InitService ==
    /\ student = NoStudent
    /\ heute = SeedHeute
    /\ ret = NoRet
    /\ db = [id \in {1} |-> SeedStudent]
    /\ req = [r \in Requests |-> IdleRequest]

\* note_speichern, line 100: student = self.repo.find_by_id(student_id)
FindById(r, student_id, leistung_id, note) ==
    /\ req[r].pc = "start"
    /\ req' = [req EXCEPT ![r] =
                  [pc |-> "geladen", student_id |-> student_id,
                   leistung_id |-> leistung_id, note |-> note,
                   student |-> find_by_id(db, student_id), err |-> NoError]]
    /\ UNCHANGED <<student, heute, ret, db>>

\* a request that goes on to save after a rejected note_eintragen
NoteEintragenSchritt_speichert_trotz_fehler(r) ==
    /\ req[r].pc = "geladen"
    /\ IF req[r].student = NoStudent
       THEN req' = [req EXCEPT ![r].pc = "fehler", ![r].err = ErrAttribute]
       ELSE LET res == note_eintragen(req[r].student.leistungen,
                                      req[r].leistung_id, req[r].note)
            IN  req' = [req EXCEPT ![r].pc = "eingetragen",
                                   ![r].err = res.err,
                                   ![r].student.leistungen = res.leistungen]
    /\ UNCHANGED <<student, heute, ret, db>>

\* note_speichern, lines 102-106: student.note_eintragen(leistung_id, note);
\* an exception ends the request
NoteEintragenSchritt(r) ==
    /\ req[r].pc = "geladen"
    /\ IF req[r].student = NoStudent
       THEN req' = [req EXCEPT ![r].pc = "fehler", ![r].err = ErrAttribute]
       ELSE LET res == note_eintragen(req[r].student.leistungen,
                                      req[r].leistung_id, req[r].note)
            IN  IF res.err # NoError
                THEN req' = [req EXCEPT ![r].pc = "fehler",
                                        ![r].err = res.err]
                ELSE req' = [req EXCEPT ![r].pc = "eingetragen",
                                ![r].student.leistungen = res.leistungen]
    /\ UNCHANGED <<student, heute, ret, db>>

\* note_speichern, line 108: self.repo.save(student)
Save(r) ==
    /\ req[r].pc = "eingetragen"
    /\ db' = save(db, req[r].student)
    /\ req' = [req EXCEPT ![r].pc = "fertig"]
    /\ UNCHANGED <<student, heute, ret>>

\* a dashboard run that stores the student without its goals
GetStudentDashboard_mit_save(student_id) ==
    /\ ret' = IF find_by_id(db, student_id) = NoStudent
              THEN Ret("get_student_dashboard", 0, 0, ErrAttribute, << >>)
              ELSE Ret("get_student_dashboard", 0, 0, NoError,
                       student_view_data(find_by_id(db, student_id), heute))
    /\ db' = [id \in DOMAIN db |->
                 IF id = student_id THEN [db[id] EXCEPT !.ziele = << >>]
                 ELSE db[id]]
    /\ UNCHANGED <<student, heute, req>>

\* get_student_dashboard(student_id): load and build the view model
GetStudentDashboard(student_id) ==
    /\ ret' = IF find_by_id(db, student_id) = NoStudent
              THEN Ret("get_student_dashboard", 0, 0, ErrAttribute, << >>)
              ELSE Ret("get_student_dashboard", 0, 0, NoError,
                       student_view_data(find_by_id(db, student_id), heute))
    /\ UNCHANGED <<student, heute, db, req>>

NextService ==
    \/ \E r \in Requests, e \in RequestEingaben :
          FindById(r, e[1], e[2], e[3])
    \/ \E r \in Requests : NoteEintragenSchritt(r)
    \/ \E r \in Requests : Save(r)
    \/ \E student_id \in {1, 2} : GetStudentDashboard(student_id)

SpecService == InitService /\ [][NextService]_vars

\* a persisted achievement that was PASSED or FAILED differs afterwards
FinalGeaendert(alt, neu) ==
    \E i \in 1..Len(alt.leistungen) :
        /\ alt.leistungen[i].status # ANGEMELDET
        /\ neu.leistungen[i] # alt.leistungen[i]

\* C8: nothing guards the grade entry against a second writer.  A request
\* whose copy shows the achievement REGISTERED enters its grade whatever has
\* been persisted since it loaded, and its save persists that grade over
\* whatever is stored; a persisted final grade or status changes only in the
\* save of a request that follows another successful request.
C8_NoWriterGuard ==
    [][\A r \in Requests :
          /\ (/\ req[r].pc = "geladen" /\ req'[r].pc # "geladen"
              /\ req[r].student # NoStudent
              /\ LET i == FindLeistung(req[r].student.leistungen,
                                       req[r].leistung_id)
                 IN  /\ i # 0
                     /\ req[r].student.leistungen[i].status = ANGEMELDET
              /\ NoteGueltig(req[r].note))
             => req'[r].pc = "eingetragen"
          /\ (req[r].pc = "eingetragen" /\ req'[r].pc = "fertig") =>
                LET i == FindLeistung(db'[req[r].student_id].leistungen,
                                      req[r].leistung_id)
                IN  /\ i # 0
                    /\ db'[req[r].student_id].leistungen[i].note = req[r].note
                    /\ FinalGeaendert(db[req[r].student_id],
                                      db'[req[r].student_id]) =>
                          \E r2 \in Requests \ {r} :
                              req[r2].pc = "fertig"]_vars

\* two requests for the same achievement have both succeeded, and the
\* persisted grade is no longer the final grade one of them saved
C8_Witness ==
    \E r1, r2 \in Requests :
        /\ r1 # r2
        /\ req[r1].pc = "fertig" /\ req[r2].pc = "fertig"
        /\ req[r1].err = NoError /\ req[r2].err = NoError
        /\ req[r1].student_id = req[r2].student_id
        /\ req[r1].leistung_id = req[r2].leistung_id
        /\ req[r1].note # req[r2].note
        /\ LET i == FindLeistung(db[req[r1].student_id].leistungen,
                                 req[r1].leistung_id)
           IN  /\ db[req[r1].student_id].leistungen[i].note = req[r2].note
               /\ db[req[r1].student_id].leistungen[i].status
                     = NICHT_BESTANDEN


(***************************************************************************)
(* Properties of the derived values, checked under SpecZiele               *)
(***************************************************************************)
\* 2^-40, the distance allowed between a float result and the exact value
Epsilon == BShiftLeft(<<1>>, FracBits - 40)

\* |x - y| for fixed-point naturals, exactly
BAbsDiff(x, y) == IF BLeq(y, x) THEN BSub(x, y) ELSE BSub(y, x)

\* C11: the grade average is absent iff no achievement is graded with
\* status PASSED or FAILED, and otherwise it is the sum of the grades of
\* exactly those achievements divided by their number (up to float
\* rounding), whatever the credits of their modules.
C11_GradeAverage ==
    ret.op = "berechne_notendurchschnitt" =>
        /\ ret.value.present <=> NotenAnzahl > 0
        /\ ret.value.present =>
              \* |value - NotenSumme / (10 * NotenAnzahl)| <= 2^-40
              BLeq(BAbsDiff(BMulSmall(ret.value.value, 10 * NotenAnzahl),
                            FFromInt(NotenSumme)),
                   BMulSmall(Epsilon, 10 * NotenAnzahl))

\* the average of a PASSED and a FAILED achievement with modules of
\* different credits
C11_Witness ==
    /\ ret.op = "berechne_notendurchschnitt"
    /\ ret.value.present
    /\ \E i, j \in 1..Len(Leistungen) :
          /\ Leistungen[i].status = BESTANDEN
          /\ Leistungen[j].status = NICHT_BESTANDEN
          /\ Leistungen[i].modul.ects_punkte # Leistungen[j].modul.ects_punkte


(***************************************************************************)
(* SpecAnsicht: the dashboard and the current semester as functions of the *)
(* student and the date.  The students are drawn from bounded sets: every  *)
(* list of at most MaxZielLeistungen achievements over modules of          *)
(* semesters 0, 1, 6 and 7 with every programme size of AnsichtGesamtEcts, *)
(* and every start date with every date of AnsichtHeuteWerte on or after   *)
(* it.                                                                     *)
(***************************************************************************)
AnsichtModule ==
    {Modul(1, 5, 0), Modul(101, 30, 1), Modul(601, 30, 6), Modul(701, 5, 7)}

AnsichtGesamtEcts == {-5, 0, 7, 8, 180, 200}

StudienbeginnWerte == {Datum(2025, 10, 1), Datum(2025, 10, 15)}

AnsichtHeuteWerte ==
    {Datum(2025, 10, 15), Datum(2026, 3, 31), Datum(2026, 4, 1),
     Datum(2026, 4, 14), Datum(2026, 4, 15), Datum(2026, 10, 14),
     Datum(2026, 10, 15), Datum(2027, 4, 20)}

\* achievement i for the module m: REGISTERED for note = None, else graded
LeistungFuerModul(i, m, note) ==
    Studienleistung(i, m, note,
                    IF note = None THEN ANGEMELDET
                    ELSE IF note <= 40 THEN BESTANDEN ELSE NICHT_BESTANDEN)

AnsichtStudents ==
    {Student(1, SeedStudienbeginn, g,
             [i \in DOMAIN f |-> LeistungFuerModul(i, f[i][1], f[i][2])],
             <<Notenziel(1, 19)>>) :
        f \in ListsUpTo(AnsichtModule \X {None, 20}, MaxZielLeistungen),
        g \in AnsichtGesamtEcts}

SemesterStudents ==
    {Student(1, b, SeedGesamtEcts, AngemeldeteLeistungen(1),
             <<Notenziel(1, 19)>>) : b \in StudienbeginnWerte}

\* von <= bis
DatumLeq(von, bis) == ToOrdinal(von) <= ToOrdinal(bis)

InitAnsicht ==
    /\ \/ student \in AnsichtStudents /\ heute = SeedHeute
       \/ /\ student \in SemesterStudents
          /\ heute \in AnsichtHeuteWerte
          /\ DatumLeq(student.studienbeginn, heute)
    /\ ret = NoRet
    /\ db = << >>
    /\ req = [r \in Requests |-> IdleRequest]

AktuellesSemesterBerechnen ==
    /\ ret' = Ret("berechne_aktuelles_semester", 0, 0, NoError,
                  berechne_aktuelles_semester(student, heute))
    /\ UNCHANGED <<student, heute, db, req>>

NextAnsicht == DashboardAufbereiten \/ AktuellesSemesterBerechnen

SpecAnsicht == InitAnsicht /\ [][NextAnsicht]_vars

\* number of entries of the semester mapping that carry the id
EintraegeMitId(D, id) ==
    Cardinality({sk \in {<<sem, k>> : sem \in DOMAIN D, k \in 1..MaxZielLeistungen + 1} :
                    /\ sk[2] <= Len(D[sk[1]])
                    /\ D[sk[1]][sk[2]].id = id})

\* position in the achievement list of the achievement with the id
PositionVon(id) == CHOOSE i \in 1..Len(Leistungen) : Leistungen[i].id = id

\* C12: the semester mapping of the dashboard has exactly the keys 1..6; an
\* achievement whose module semester is in 1..6 appears exactly once, under
\* that semester and with its own id, module, grade and status; entries of
\* one semester keep the order of the achievement list; an achievement of
\* any other semester appears nowhere, and the dashboard is built without
\* error.
C12_SemesterGrouping ==
    ret.op = "get_student_dashboard" =>
        LET D == ret.value.semester_data
        IN  /\ ret.err = NoError
            /\ DOMAIN D = 1..6
            /\ \A i \in 1..Len(Leistungen) :
                  LET l == Leistungen[i]
                  IN  IF l.modul.semester \in 1..6
                      THEN /\ EintraegeMitId(D, l.id) = 1
                           /\ \E k \in 1..Len(D[l.modul.semester]) :
                                 D[l.modul.semester][k] =
                                    [id |-> l.id, modul |-> l.modul.id,
                                     note |-> l.note, status |-> l.status]
                      ELSE EintraegeMitId(D, l.id) = 0
            /\ \A sem \in DOMAIN D :
                  /\ Len(D[sem]) <= Len(Leistungen)
                  /\ \A k1, k2 \in 1..Len(D[sem]) :
                        k1 < k2 =>
                           PositionVon(D[sem][k1].id)
                              < PositionVon(D[sem][k2].id)

\* a dashboard of a student with an achievement inside and one outside the
\* semesters 1..6
C12_Witness ==
    /\ ret.op = "get_student_dashboard"
    /\ \E i, j \in 1..Len(Leistungen) :
          /\ Leistungen[i].modul.semester \in 1..6
          /\ Leistungen[j].modul.semester \notin 1..6
    /\ \E sem \in 1..6 : ret.value.semester_data[sem] = << >>

\* C13: progressPercent is 0 for a programme size <= 0, otherwise an
\* integer p with |p - 100 * earned / total| <= 1/2, and 33 for 60 of 180.
C13_ProgressPercent ==
    ret.op = "get_student_dashboard" =>
        LET total  == student.studiengang.gesamtects
            earned == PassedCredits(Leistungen)
            p      == ret.value.fortschritt.prozent
        IN  /\ total <= 0 => p = 0
            /\ total > 0 =>
                  /\ 2 * p * total - 200 * earned <= total
                  /\ 200 * earned - 2 * p * total <= total
            /\ (earned = 60 /\ total = 180) => p = 33

\* 60 of 180 credits earned
C13_Witness ==
    /\ ret.op = "get_student_dashboard"
    /\ PassedCredits(Leistungen) = 60
    /\ student.studiengang.gesamtects = 180
    /\ ret.value.fortschritt.prozent = 33

\* whole months between the start date and the date: the month difference,
\* less one when the day of the month is before the start day
VolleMonate(von, bis) ==
    (bis.year - von.year) * 12 + (bis.month - von.month)
        - (IF bis.day < von.day THEN 1 ELSE 0)

\* C16: for a date on or after the start date the current semester is the
\* number of whole 6-month periods elapsed since the start date, plus one.
C16_SemesterWholePeriods ==
    (ret.op = "berechne_aktuelles_semester"
        /\ DatumLeq(student.studienbeginn, heute)) =>
        ret.value = (VolleMonate(student.studienbeginn, heute) \div 6) + 1


C15_StudentNotFound ==
    /\ \A r \in Requests :
          (req[r].pc # "start" /\ req[r].student_id \notin DOMAIN db) =>
              /\ req[r].pc \in {"geladen", "fehler"}
              /\ req[r].pc = "fehler" => req[r].err = ErrNichtGefunden
    /\ (ret.op = "get_student_dashboard" /\ ret.err # NoError) =>
          ret.err = ErrNichtGefunden

\* C17: a request goes load, enterGrade, save.  It reaches the save only
\* from an enterGrade that found the achievement REGISTERED in its copy and
\* got a grade in range; a rejected enterGrade ends the request with the
\* error and leaves the stored students as they are; a request saves once
\* (nothing follows its save), and the stored students change only in a
\* save.
C17_LoadEnterSave ==
    [][/\ \A r \in Requests :
             /\ req'[r].pc # req[r].pc =>
                   <<req[r].pc, req'[r].pc>> \in
                      {<<"start", "geladen">>, <<"geladen", "eingetragen">>,
                       <<"geladen", "fehler">>, <<"eingetragen", "fertig">>}
             /\ (req[r].pc = "geladen" /\ req'[r].pc = "eingetragen") =>
                   LET i == FindLeistung(req[r].student.leistungen,
                                         req[r].leistung_id)
                   IN  /\ req[r].student # NoStudent
                       /\ i # 0
                       /\ req[r].student.leistungen[i].status = ANGEMELDET
                       /\ NoteGueltig(req[r].note)
                       /\ req'[r].err = NoError
                       /\ db' = db
             /\ (req[r].pc = "geladen" /\ req'[r].pc = "fehler") =>
                   /\ req'[r].err # NoError
                   /\ db' = db
             /\ req[r].pc \in {"fehler", "fertig"} => req'[r] = req[r]
       /\ db' # db =>
             \E r \in Requests :
                 /\ req[r].pc = "eingetragen" /\ req'[r].pc = "fertig"
                 /\ db' = save(db, req[r].student)
                 /\ \A r2 \in Requests \ {r} : req'[r2] = req[r2]]_vars

\* one request was rejected by enterGrade and another one has saved
C17_Witness ==
    \E r1, r2 \in Requests :
        /\ req[r1].pc = "fehler"
        /\ req[r1].err.cls = "ValueError"
        /\ req[r2].pc = "fertig"
        /\ db[req[r2].student_id] = req[r2].student


(***************************************************************************)
(* Further properties of the Student aggregate, checked under Spec         *)
(***************************************************************************)
\* C18: the seeded student, who started on 1 October of the year before the
\* seeding, is in semester 3 whatever the month of the current date.
C18_SeededStudentSemester3 ==
    (ret.op = "get_student_dashboard"
        /\ student.studienbeginn = SeedStudienbeginn) =>
        ret.value.aktuelles_semester = 3

\* C19: a successful note_eintragen sets the grade and the status of the
\* first achievement with the id and changes nothing else: every other
\* achievement (also a later one with the same id), the length and order of
\* the list, the id and module of the graded achievement, the goals, the
\* programme and the student's attributes stay as they are.
C19_OnlyFirstMatchChanges ==
    [][(IstNoteEintragen /\ ret'.err = NoError) =>
          /\ ZielIndex # 0
          /\ Len(student'.leistungen) = Len(Leistungen)
          /\ \A j \in 1..Len(Leistungen) :
                IF j = ZielIndex
                THEN /\ student'.leistungen[j].id = Leistungen[j].id
                     /\ student'.leistungen[j].modul = Leistungen[j].modul
                     /\ student'.leistungen[j].note = ret'.note
                ELSE student'.leistungen[j] = Leistungen[j]
          /\ student'.ziele = student.ziele
          /\ student'.studiengang = student.studiengang
          /\ student'.id = student.id
          /\ student'.studienbeginn = student.studienbeginn]_vars

\* a grade was entered for an id that two achievements carry: the first is
\* graded, the second still REGISTERED
C19_Witness ==
    /\ ret.op = "note_eintragen"
    /\ ret.err = NoError
    /\ \E i, j \in 1..Len(Leistungen) :
          /\ i < j
          /\ Leistungen[i].id = ret.leistung_id
          /\ Leistungen[j].id = ret.leistung_id
          /\ Leistungen[i].note = ret.note
          /\ Leistungen[j].status = ANGEMELDET
          /\ Leistungen[j].note = None

\* C20: in every state reached by note_eintragen calls from a student whose
\* REGISTERED achievements have no grade, an achievement has a grade iff
\* its status is PASSED or FAILED.
C20_GradeIffFinal ==
    \A i \in 1..Len(Leistungen) :
        Leistungen[i].note # None
            <=> Leistungen[i].status \in {BESTANDEN, NICHT_BESTANDEN}

\* after a rejected call: one achievement graded, another still REGISTERED
C20_Witness ==
    /\ ret.op = "note_eintragen"
    /\ ret.err = ErrNoteBereich
    /\ \E i, j \in 1..Len(Leistungen) :
          /\ Leistungen[i].status = ANGEMELDET
          /\ Leistungen[j].status # ANGEMELDET

====
